---- MODULE Spec2Model ----
(***************************************************************************)
(* Verification model of the voxel server core:                            *)
(*   - the run-length chunk codec   (common/src/world/chunk.rs)            *)
(*   - the server tick loop         (server/src/lib.rs)                    *)
(*                                                                         *)
(* SpecCodec checks the codec as a pure function over bounded inputs.      *)
(* Spec checks the tick loop of launch_server together with the worker     *)
(* thread and the transport that run beside it.                            *)
(***************************************************************************)
EXTENDS Integers, Sequences, FiniteSets, TLC

VARIABLES
    \* ---- codec (chunk.rs) ----
    cstage,       \* "idle" | "chunk" | "compressed" | "decoded"
    origin,       \* "none" | "local" (a Chunk to encode) | "wire" (a received CompressedChunk)
    chunk,        \* the Chunk handed to from_chunk: [pos, data]
    compressed,   \* the CompressedChunk: [pos, data]
    decoded,      \* outcome of to_chunk: [status, pos, data]
    enc_overflow, \* the u16 run counter of from_chunk overflowed
    dec_overflow, \* the u16 offset arithmetic of to_chunk overflowed
    \* ---- server (lib.rs), state of launch_server ----
    pc,                          \* position of the orchestrator thread in the loop body
    nevents,                     \* events received so far by the inner loop of this tick
    players,                     \* HashMap id -> PlayerData [loaded_chunks, render_distance]
    phys,                        \* physics state: id -> chunk holding the player's camera
    world,                       \* keys of world.chunks
    generating_chunks,           \* HashSet<ChunkPos>
    update_lightning_chunks,     \* HashSet<ChunkPos>
    update_lightning_chunks_vec, \* VecDeque<ChunkPos>
    \* ---- world generation worker ----
    wqueue,                      \* queued jobs, oldest first: [pos, prio]
    wflight,                     \* the job the worker thread is computing, or None
    wdone,                       \* completion channel, oldest first
    wfailed,                     \* positions whose job failed and was not enqueued again
    \* ---- records of the calls made by the latest drain / streaming pass ----
    drain_log,                   \* [results, installed, lit, failed]
    pass_log,                    \* [enq, deq, prio, evicted, acts, dropped]
    enq_open,                    \* enqueue_chunk(P) called and dequeue_chunk(P) not called since
    lit_evicted,                 \* positions a pass evicted while they waited for their light
                                 \*   and no drain has installed since
    \* ---- transport (Box<dyn Server>) ----
    event,                       \* what the latest server.receive_event() returned: <<kind, id>>
    sent,                        \* id -> the messages server.send(id, ..) got in the latest step
    session,                     \* id -> kinds of the first two messages sent to id since its
                                 \*       latest ClientConnected / ClientDisconnected
    \* ---- client: WorldRenderer (render/world/mod.rs) and its meshing worker ----
    mqueue,                      \* meshing jobs queued, oldest first
    mflight,                     \* the position the meshing thread is working on, or None
    mdone,                       \* meshes waiting for render: [pos, vertices, indices] (lengths)
    chunk_vertex_buffers,        \* keys of the MultiBuffer of vertices
    chunk_index_buffers,         \* keys of the MultiBuffer of indices
    mremoved,                    \* remove_chunk(pos) called and update_chunk(pos) not called since
    mdraw,                       \* "none" | "ok" | "panicked": the unwraps of the latest render
    \* ---- client: InputState (input.rs) ----
    keys,                        \* HashMap scancode -> ElementState
    mouse_buttons,               \* HashMap MouseButton -> ElementState
    icall,                       \* the latest process_*_input call: [fn, key, state, before, ret]
    \* ---- Registry<T> (registry.rs) ----
    name_to_id,                  \* HashMap<String, u32>
    id_to_name,                  \* Vec<String>
    id_to_value,                 \* Vec<T>
    rcall,                       \* the latest call on the registry: [fn, name, ret]
    rlog                         \* <<name, id>> of every register call that returned Ok(id), in order

codecVars == <<cstage, origin, chunk, compressed, decoded, enc_overflow, dec_overflow>>

serverVars == <<pc, nevents, players, phys, world, generating_chunks,
                update_lightning_chunks, update_lightning_chunks_vec>>

workerVars == <<wqueue, wflight, wdone, wfailed>>

logVars == <<drain_log, pass_log, enq_open, lit_evicted>>

netVars == <<event, sent, session>>

meshVars == <<mqueue, mflight, mdone, chunk_vertex_buffers, chunk_index_buffers,
              mremoved, mdraw>>

inputVars == <<keys, mouse_buttons, icall>>

clientVars == <<meshVars, inputVars>>

registryVars == <<name_to_id, id_to_name, id_to_value, rcall, rlog>>

vars == <<codecVars, serverVars, workerVars, logVars, netVars, clientVars, registryVars>>

(***************************************************************************)
(* Chunk codec.                                                            *)
(*                                                                         *)
(* A block array of CHUNK_SIZE^3 cells is written piecewise: a sequence of *)
(* pieces <<n, b>>, n >= 1 consecutive cells all holding block id b.       *)
(* Neighbouring pieces may hold the same id, so a piece is not a run of    *)
(* the encoding.  One step of a loop over the cells is applied to a whole  *)
(* piece at a time: within a piece only the first cell can differ from the *)
(* cell before it.                                                         *)
(***************************************************************************)
CHUNK_SIZE == 32

CELLS == CHUNK_SIZE * CHUNK_SIZE * CHUNK_SIZE

\* Largest value of the u16 run length of Vec<(u16, BlockId)>.
U8Max == 2^8 - 1

U16Max == 2^16 - 1

\* ---- bounds of the codec inputs ----
MaxCuts == 2

NumBlocks == 2

MaxRuns == 2

Blocks == 0 .. (NumBlocks - 1)

\* Cell indexes at which a piece of an input chunk may start.
Cuts == {1, 2, 16384, 32766, 32767}

\* Run lengths of a CompressedChunk read from the wire.
WireLens == {0, 1, 32767, 32768, 65535}

ChunkPositions == {<<0, 0, 0>>, <<-1, 2, 7>>}

None == "none"

RECURSIVE Total(_)
Total(ps) == IF ps = <<>> THEN 0 ELSE ps[1][1] + Total(Tail(ps))

\* Block id of cell idx (0-based) of a piecewise array.
RECURSIVE CellAt(_, _)
CellAt(ps, idx) ==
    IF idx < ps[1][1] THEN ps[1][2] ELSE CellAt(Tail(ps), idx - ps[1][1])

\* 0-based index of the first cell of every piece.
RECURSIVE Starts(_, _)
Starts(ps, at) ==
    IF ps = <<>> THEN {} ELSE {at} \cup Starts(Tail(ps), at + ps[1][1])

\* Two piecewise arrays hold the same block id in every cell: they have the
\* same length and agree on the first cell of every piece of either (between
\* two such cells both are constant).
SameCells(a, b) ==
    /\ Total(a) = Total(b)
    /\ \A s \in Starts(a, 0) \cup Starts(b, 0) : CellAt(a, s) = CellAt(b, s)

\* Pieces of the array cut at the sorted cell indexes cs, with ids bs.
RECURSIVE PiecesOf(_, _, _)
PiecesOf(cs, bs, from) ==
    IF cs = <<>> THEN << <<CELLS - from, bs[1]>> >>
    ELSE << <<cs[1] - from, bs[1]>> >> \o PiecesOf(Tail(cs), Tail(bs), cs[1])

RECURSIVE SortedSeq(_)
SortedSeq(S) ==
    IF S = {} THEN <<>>
    ELSE LET m == CHOOSE x \in S : \A y \in S : x <= y
         IN  <<m>> \o SortedSeq(S \ {m})

\* Every chunk of the bounded input set: Chunk { pos, data }, data of CELLS cells.
Chunks ==
    UNION { { [pos |-> p, data |-> PiecesOf(SortedSeq(C), bs, 0)] :
                p \in ChunkPositions, bs \in [1 .. (Cardinality(C) + 1) -> Blocks] } :
            C \in {D \in SUBSET Cuts : Cardinality(D) <= MaxCuts} }

WellFormedChunks == {c \in Chunks : Len(c.data) >= 1 /\ Total(c.data) = CELLS}

RunSeqs == UNION {[1 .. n -> WireLens \X Blocks] : n \in 0 .. MaxRuns}

\* Every CompressedChunk of the bounded wire input set (fields are public).
WireChunks == {[pos |-> p, data |-> rs] : p \in ChunkPositions, rs \in RunSeqs}

\* FromChunkCells with line 48 (current_block_count = 0) left out.
FromChunkCellsNoReset(st, piece) ==
    LET s1  == IF piece[2] # st.block
               THEN [st EXCEPT !.out = Append(st.out, <<st.count, st.block>>),
                               !.block = piece[2]]
               ELSE st
        sum == s1.count + piece[1]
    IN  [s1 EXCEPT !.count = sum % (U16Max + 1), !.ovf = s1.ovf \/ sum > U16Max]

\* FromChunkCells closing the run at every piece, equal block id or not.
FromChunkCellsNoMerge(st, piece) ==
    LET s1  == IF st.count > 0
               THEN [st EXCEPT !.out = Append(st.out, <<st.count, st.block>>),
                               !.block = piece[2], !.count = 0]
               ELSE st
        sum == s1.count + piece[1]
    IN  [s1 EXCEPT !.count = sum % (U16Max + 1), !.ovf = s1.ovf \/ sum > U16Max]

\* chunk.rs:44-51, the loop body over the cells of one piece <<n, b>>.
\* st = [block, count, out, ovf] are current_block, current_block_count,
\* compressed_data and whether `current_block_count += 1` overflowed u16.
FromChunkCells(st, piece) ==
    LET n   == piece[1]
        b   == piece[2]
        \* first cell of the piece: lines 45-49
        s1  == IF b # st.block
               THEN [st EXCEPT !.out = Append(st.out, <<st.count, st.block>>),
                               !.block = b, !.count = 0]
               ELSE st
        \* line 50, once per cell of the piece
        sum == s1.count + n
    IN  [s1 EXCEPT !.count = sum % (U16Max + 1),
                   !.ovf = s1.ovf \/ sum > U16Max]

RECURSIVE FromChunkLoop(_, _)
FromChunkLoop(st, ps) ==
    IF ps = <<>> THEN st ELSE FromChunkLoop(FromChunkCells(st, ps[1]), Tail(ps))

\* CompressedChunk::from_chunk
from_chunk(c) ==
    LET st0 == [block |-> CellAt(c.data, 0), count |-> 0, out |-> <<>>, ovf |-> FALSE]
        st  == FromChunkLoop(st0, c.data)
    IN  [cc  |-> [pos |-> c.pos, data |-> Append(st.out, <<st.count, st.block>>)],
         ovf |-> st.ovf]

\* chunk.rs:67-72, one run (len, block) of the decoding loop.
\* st = [status, i, data, ovf]: data are the pieces written so far, i the u16 offset.
ToChunkRun(st, run) ==
    LET len      == run[1]
        block    == run[2]
        firstOob == CELLS - st.i          \* least j with (i + j) outside data
        firstOvf == U16Max + 1 - st.i     \* least j with i + j above u16
    IN  IF st.status # "ok" THEN st
        ELSE IF len > firstOob /\ firstOob <= firstOvf
        THEN [st EXCEPT !.status = "panic"]                       \* line 69: index out of bounds
        ELSE [status |-> "ok",
              i      |-> (st.i + len) % (U16Max + 1),              \* line 71
              data   |-> IF len = 0 THEN st.data ELSE Append(st.data, <<len, block>>),
              ovf    |-> st.ovf \/ len > firstOvf \/ st.i + len > U16Max]

RECURSIVE ToChunkLoop(_, _)
ToChunkLoop(st, rs) ==
    IF rs = <<>> THEN st ELSE ToChunkLoop(ToChunkRun(st, rs[1]), Tail(rs))

\* CompressedChunk::to_chunk.  The array starts as CELLS zeros (line 64): the
\* cells no run has written keep block id 0.
to_chunk(cc) ==
    LET st == ToChunkLoop([status |-> "ok", i |-> 0, data |-> <<>>, ovf |-> FALSE], cc.data)
    IN  [status |-> st.status,
         pos    |-> cc.pos,
         data   |-> IF st.status # "ok" THEN <<>>
                    ELSE IF st.i < CELLS THEN Append(st.data, <<CELLS - st.i, 0>>)
                    ELSE st.data,
         ovf    |-> st.ovf]

NoChunk == [pos |-> <<0, 0, 0>>, data |-> <<>>]

NoDecoded == [status |-> None, pos |-> <<0, 0, 0>>, data |-> <<>>]

CodecIdle ==
    /\ cstage = "idle"
    /\ origin = None
    /\ chunk = NoChunk
    /\ compressed = NoChunk
    /\ decoded = NoDecoded
    /\ enc_overflow = FALSE
    /\ dec_overflow = FALSE

(***************************************************************************)
(* Server: launch_server (server/src/lib.rs).                              *)
(*                                                                         *)
(* The world is bounded to the chunk positions of Universe.  A player's    *)
(* camera position is kept as the chunk that contains it.  The content of  *)
(* a chunk is not kept: the generator is a function of the position.       *)
(***************************************************************************)

\* ---- bounds of the server model ----
\* Events the inner loop receives in one tick, at most.
MaxEvents == 2

PlayerIds == {1, 2}

\* The chunk positions of the bounded world: two chunks of one column.
Universe == {<<0, 0, 0>>, <<0, 1, 0>>}

\* Values a client sends in SetRenderDistance.
RenderDistances == {0, 1}

\* RenderDistance::default()
DefaultRenderDistance == 1

\* Chunk where the physics simulation places a new player.
Spawn == <<0, 0, 0>>

Abs(n) == IF n < 0 THEN -n ELSE n

\* ChunkPos::squared_euclidian_distance
squared_euclidian_distance(a, b) ==
    (a[1] - b[1]) * (a[1] - b[1]) + (a[2] - b[2]) * (a[2] - b[2])
        + (a[3] - b[3]) * (a[3] - b[3])

\* RenderDistance::is_chunk_visible(player_pos, chunk_pos)
is_chunk_visible(rd, ppos, cpos) ==
    /\ Abs(cpos[1] - ppos[1]) <= rd
    /\ Abs(cpos[2] - ppos[2]) <= rd
    /\ Abs(cpos[3] - ppos[3]) <= rd

\* The positions of S, nearest to `from` first.
RECURSIVE NearestFirst(_, _)
NearestFirst(S, from) ==
    IF S = {} THEN <<>>
    ELSE LET d(c) == squared_euclidian_distance(c, from)
             m    == CHOOSE c \in S : \A e \in S : d(c) <= d(e)
         IN  <<m>> \o NearestFirst(S \ {m}, from)

\* RenderDistance::iterate_around_player(player_pos)
iterate_around_player(rd, ppos) ==
    NearestFirst({c \in Universe : is_chunk_visible(rd, ppos, c)}, ppos)

Range(q) == {q[k] : k \in DOMAIN q}

\* Every order in which the keys of a HashMap over S can be iterated.
Orders(S) == {q \in [1 .. Cardinality(S) -> S] : Range(q) = S}

\* The order in which a HashSet is iterated, where the order makes no difference.
AnyOrder(S) == CHOOSE q \in Orders(S) : TRUE

\* PlayerData::default()
DefaultPlayerData == [loaded_chunks |-> {}, render_distance |-> DefaultRenderDistance]

\* ServerPhysicsSimulation::set_player_input: a player the simulation does
\* not know yet gets a state.
set_player_input(ph, id) ==
    IF id \in DOMAIN ph THEN ph
    ELSE [j \in DOMAIN ph \cup {id} |-> IF j = id THEN Spawn ELSE ph[j]]

\* HashMap::remove
MapRemove(f, id) == [j \in DOMAIN f \ {id} |-> f[j]]

\* HashMap::insert
MapInsert(f, id, v) == [j \in DOMAIN f \cup {id} |-> IF j = id THEN v ELSE f[j]]

\* ServerPhysicsSimulation::remove
remove(ph, id) == MapRemove(ph, id)

NoDrain == [results |-> <<>>, installed |-> {}, lit |-> <<>>, failed |-> {}]

NoPass == [enq |-> <<>>, deq |-> {}, prio |-> {}, evicted |-> {},
           acts |-> [id \in PlayerIds |-> <<>>], dropped |-> {}]

\* ServerEvent::NoEvent, also the value before the first receive_event().
NoEv == <<"NoEvent", None>>

\* No server.send call.
NoSent == [id \in PlayerIds |-> <<>>]

\* The ToClient messages, as <<kind, payload>>.
GameData == <<"GameData", None>>

CurrentId(id) == <<"CurrentId", id>>

UpdatePhysics == <<"UpdatePhysics", None>>

Chunk(pos) == <<"Chunk", pos>>

\* The session record after the messages `out` were sent: the kinds of the
\* first two messages of each session.
Record(ses, out) ==
    [id \in PlayerIds |->
        LET all == ses[id] \o [k \in DOMAIN out[id] |-> out[id][k][1]]
        IN  SubSeq(all, 1, IF Len(all) < 2 THEN Len(all) ELSE 2)]

InitServer ==
    /\ pc = "events"
    /\ nevents = 0
    /\ players = <<>>
    /\ phys = <<>>
    /\ world = {}
    /\ generating_chunks = {}
    /\ update_lightning_chunks = {}
    /\ update_lightning_chunks_vec = <<>>
    /\ wqueue = <<>>
    /\ wflight = None
    /\ wdone = <<>>
    /\ wfailed = {}
    /\ drain_log = NoDrain
    /\ pass_log = NoPass
    /\ enq_open = {}
    /\ lit_evicted = {}
    /\ event = NoEv
    /\ sent = NoSent
    /\ session = NoSent

\* ---- lib.rs:53-80, one turn of the inner loop: server.receive_event() ----

\* ServerEvent::NoEvent => break
NoEvent ==
    /\ pc = "events"
    /\ pc' = "drain"
    /\ nevents' = 0
    /\ event' = NoEv
    /\ sent' = NoSent
    /\ UNCHANGED <<players, phys, world, generating_chunks,
                   update_lightning_chunks, update_lightning_chunks_vec>>
    /\ UNCHANGED <<registryVars, clientVars, codecVars, workerVars, logVars, session>>

\* ClientConnected without the sends of lines 60-61.
ClientConnectedNoGreeting(id) ==
    /\ pc = "events"
    /\ nevents < MaxEvents
    /\ id \notin DOMAIN players
    /\ nevents' = nevents + 1
    /\ event' = <<"ClientConnected", id>>
    /\ phys' = set_player_input(phys, id)
    /\ players' = MapInsert(players, id, DefaultPlayerData)
    /\ sent' = NoSent
    /\ session' = [session EXCEPT ![id] = <<>>]
    /\ UNCHANGED <<pc, world, generating_chunks,
                   update_lightning_chunks, update_lightning_chunks_vec>>
    /\ UNCHANGED <<registryVars, clientVars, codecVars, workerVars, logVars>>

\* ServerEvent::ClientConnected(id)
ClientConnected(id) ==
    /\ pc = "events"
    /\ nevents < MaxEvents
    /\ id \notin DOMAIN players
    /\ nevents' = nevents + 1
    /\ event' = <<"ClientConnected", id>>
    /\ phys' = set_player_input(phys, id)
    /\ players' = MapInsert(players, id, DefaultPlayerData)
    /\ sent' = [NoSent EXCEPT ![id] = <<GameData, CurrentId(id)>>]
    /\ session' = Record([session EXCEPT ![id] = <<>>], sent')
    /\ UNCHANGED <<pc, world, generating_chunks,
                   update_lightning_chunks, update_lightning_chunks_vec>>
    /\ UNCHANGED <<registryVars, clientVars, codecVars, workerVars, logVars>>

\* ClientDisconnected without line 65, players.remove(&id).
ClientDisconnectedKeepsPlayer(id) ==
    /\ pc = "events"
    /\ nevents < MaxEvents
    /\ id \in DOMAIN players
    /\ nevents' = nevents + 1
    /\ event' = <<"ClientDisconnected", id>>
    /\ phys' = remove(phys, id)
    /\ sent' = NoSent
    /\ session' = [session EXCEPT ![id] = <<>>]
    /\ UNCHANGED <<pc, players, world, generating_chunks,
                   update_lightning_chunks, update_lightning_chunks_vec>>
    /\ UNCHANGED <<registryVars, clientVars, codecVars, workerVars, logVars>>

\* ServerEvent::ClientDisconnected(id)
ClientDisconnected(id) ==
    /\ pc = "events"
    /\ nevents < MaxEvents
    /\ id \in DOMAIN players
    /\ nevents' = nevents + 1
    /\ event' = <<"ClientDisconnected", id>>
    /\ phys' = remove(phys, id)
    /\ players' = MapRemove(players, id)
    /\ sent' = NoSent
    /\ session' = [session EXCEPT ![id] = <<>>]
    /\ UNCHANGED <<pc, world, generating_chunks,
                   update_lightning_chunks, update_lightning_chunks_vec>>
    /\ UNCHANGED <<registryVars, clientVars, codecVars, workerVars, logVars>>

\* UpdateInput leaving the inner loop after the message.
UpdateInputThenBreak(id) ==
    /\ pc = "events"
    /\ nevents < MaxEvents
    /\ nevents' = 0
    /\ event' = <<"UpdateInput", id>>
    /\ IF id \in DOMAIN players
       THEN /\ phys' = set_player_input(phys, id)
            /\ pc' = "drain"
       ELSE /\ pc' = "panicked"
            /\ phys' = phys
    /\ sent' = NoSent
    /\ UNCHANGED <<players, world, generating_chunks,
                   update_lightning_chunks, update_lightning_chunks_vec>>
    /\ UNCHANGED <<registryVars, clientVars, codecVars, workerVars, logVars, session>>

\* ServerEvent::ClientMessage(id, ToServer::UpdateInput(input))
UpdateInput(id) ==
    /\ pc = "events"
    /\ nevents < MaxEvents
    /\ nevents' = nevents + 1
    /\ event' = <<"UpdateInput", id>>
    /\ IF id \in DOMAIN players                       \* assert!(players.contains_key(&id))
       THEN /\ phys' = set_player_input(phys, id)
            /\ pc' = pc
       ELSE /\ pc' = "panicked"
            /\ phys' = phys
    /\ sent' = NoSent
    /\ UNCHANGED <<players, world, generating_chunks,
                   update_lightning_chunks, update_lightning_chunks_vec>>
    /\ UNCHANGED <<registryVars, clientVars, codecVars, workerVars, logVars, session>>

\* SetRenderDistance without the assert of line 73: and_modify does nothing
\* for a key the map does not hold.
SetRenderDistanceUnchecked(id, rd) ==
    /\ pc = "events"
    /\ nevents < MaxEvents
    /\ nevents' = nevents + 1
    /\ event' = <<"SetRenderDistance", id>>
    /\ players' = IF id \in DOMAIN players
                  THEN [players EXCEPT ![id].render_distance = rd]
                  ELSE players
    /\ sent' = NoSent
    /\ UNCHANGED <<pc, phys, world, generating_chunks,
                   update_lightning_chunks, update_lightning_chunks_vec>>
    /\ UNCHANGED <<registryVars, clientVars, codecVars, workerVars, logVars, session>>

\* ServerEvent::ClientMessage(id, ToServer::SetRenderDistance(render_distance))
SetRenderDistance(id, rd) ==
    /\ pc = "events"
    /\ nevents < MaxEvents
    /\ nevents' = nevents + 1
    /\ event' = <<"SetRenderDistance", id>>
    /\ IF id \in DOMAIN players                       \* assert!(players.contains_key(&id))
       THEN /\ players' = [players EXCEPT ![id].render_distance = rd]
            /\ pc' = pc
       ELSE /\ pc' = "panicked"
            /\ players' = players
    /\ sent' = NoSent
    /\ UNCHANGED <<phys, world, generating_chunks,
                   update_lightning_chunks, update_lightning_chunks_vec>>
    /\ UNCHANGED <<registryVars, clientVars, codecVars, workerVars, logVars, session>>

\* ---- lib.rs:82-111, the worker results ----

\* RelightKeys taking the branch of line 102 whatever `changed` is.
RelightKeysCube(w, pos, changed) ==
    {c_pos \in w :
        Abs(c_pos[2] - pos[2]) <= 1 /\ Abs(c_pos[1] - pos[1]) <= 1
        /\ Abs(c_pos[3] - pos[3]) <= 1}

\* RelightKeys going through the neighbouring positions, stored or not,
\* where lines 89 and 101 go through world.chunks.keys().
RelightKeysUnstored(w, pos, changed) ==
    {c_pos \in Universe :
        IF changed
        THEN c_pos[2] <= pos[2] /\ Abs(c_pos[1] - pos[1]) <= 1
             /\ Abs(c_pos[3] - pos[3]) <= 1
        ELSE Abs(c_pos[2] - pos[2]) <= 1 /\ Abs(c_pos[1] - pos[1]) <= 1
             /\ Abs(c_pos[3] - pos[3]) <= 1}

\* lib.rs:90 and 102: the keys of world.chunks that the install of `pos` marks
\* for a light update.  `changed` is what update_highest_opaque_block returned.
RelightKeys(w, pos, changed) ==
    {c_pos \in w :
        IF changed
        THEN c_pos[2] <= pos[2] /\ Abs(c_pos[1] - pos[1]) <= 1
             /\ Abs(c_pos[3] - pos[3]) <= 1
        ELSE Abs(c_pos[2] - pos[2]) <= 1 /\ Abs(c_pos[1] - pos[1]) <= 1
             /\ Abs(c_pos[3] - pos[3]) <= 1}

\* PushLight without the test of lines 91 and 103.
RECURSIVE PushLightNoDedup(_, _)
PushLightNoDedup(st, cs) ==
    IF cs = <<>> THEN st
    ELSE PushLightNoDedup([st EXCEPT !.lset = st.lset \cup {cs[1]},
                                    !.lvec = Append(st.lvec, cs[1])],
                          Tail(cs))

\* lib.rs:91-94 and 103-106 for each key of cs in turn.
RECURSIVE PushLight(_, _)
PushLight(st, cs) ==
    IF cs = <<>> THEN st
    ELSE PushLight(
            IF cs[1] \in st.lset THEN st
            ELSE [st EXCEPT !.lset = st.lset \cup {cs[1]},
                            !.lvec = Append(st.lvec, cs[1])],
            Tail(cs))

StillGeneratingNoCheck(pos) == TRUE

\* StillGenerating with the test of line 84 inverted.
StillGeneratingInverted(pos) == pos \notin generating_chunks

\* lib.rs:84
StillGenerating(pos) == pos \in generating_chunks

\* lib.rs:84-110, the loop body for one result: every outcome it can have.
\* update_highest_opaque_block may return either value, and the keys of
\* world.chunks are iterated in an order the HashMap chooses.
\* st = [world, lset, lvec, installed, lit]; lit records, for every install,
\* the position, what update_highest_opaque_block returned, the keys of
\* world.chunks and the lighting queue at that moment.
DrainOne(st, pos) ==
    IF StillGenerating(pos)
    THEN LET w  == st.world \cup {pos}                       \* world.set_chunk(chunk)
             s1 == [st EXCEPT !.world = w, !.installed = st.installed \cup {pos}]
             s2(changed) ==
                [s1 EXCEPT !.lit = Append(st.lit, [pos |-> pos, changed |-> changed,
                                                   stored |-> w, queue |-> st.lvec])]
         IN  UNION { { PushLight(s2(changed), order) :
                         order \in Orders(RelightKeys(w, pos, changed)) } :
                     changed \in BOOLEAN }
    ELSE {st}

RECURSIVE DrainLoop(_, _)
DrainLoop(sts, results) ==
    IF results = <<>> THEN sts
    ELSE DrainLoop(UNION {DrainOne(st, results[1]) : st \in sts}, Tail(results))

\* for chunk in world_generator.get_processed_chunks() { ... }
DrainResults ==
    /\ pc = "drain"
    /\ \E st \in DrainLoop({[world |-> world, lset |-> update_lightning_chunks,
                             lvec |-> update_lightning_chunks_vec, installed |-> {},
                             lit |-> <<>>]},
                           wdone) :
          /\ world' = st.world
          /\ update_lightning_chunks' = st.lset
          /\ update_lightning_chunks_vec' = st.lvec
          /\ drain_log' = [results |-> wdone, installed |-> st.installed, lit |-> st.lit,
                            failed |-> wfailed]
          /\ lit_evicted' = lit_evicted \ st.installed
    /\ wdone' = <<>>
    /\ pc' = "light"
    /\ sent' = NoSent
    /\ UNCHANGED <<nevents, players, phys, generating_chunks>>
    /\ UNCHANGED <<registryVars, clientVars, codecVars, wqueue, wflight, wfailed, pass_log, enq_open,
                   event, session>>

\* UpdateLight with `while` for the `if` of line 114.
UpdateLightAll ==
    /\ pc = "light"
    /\ update_lightning_chunks_vec' = <<>>
    /\ update_lightning_chunks' = update_lightning_chunks \ Range(update_lightning_chunks_vec)
    /\ lit_evicted' = {}
    /\ drain_log' = NoDrain
    /\ pc' = "physics"
    /\ sent' = NoSent
    /\ UNCHANGED <<nevents, players, phys, world, generating_chunks>>
    /\ UNCHANGED <<registryVars, clientVars, codecVars, workerVars, pass_log, enq_open, event, session>>

\* UpdateLight with pop_back for the pop_front of line 115.
UpdateLightLifo ==
    /\ pc = "light"
    /\ IF update_lightning_chunks_vec # <<>>
       THEN LET n == Len(update_lightning_chunks_vec)
            IN  /\ update_lightning_chunks_vec' = SubSeq(update_lightning_chunks_vec, 1, n - 1)
                /\ update_lightning_chunks' =
                       update_lightning_chunks \ {update_lightning_chunks_vec[n]}
                /\ lit_evicted' = lit_evicted \ {update_lightning_chunks_vec[n]}
       ELSE UNCHANGED <<update_lightning_chunks, update_lightning_chunks_vec, lit_evicted>>
    /\ drain_log' = NoDrain
    /\ pc' = "physics"
    /\ sent' = NoSent
    /\ UNCHANGED <<nevents, players, phys, world, generating_chunks>>
    /\ UNCHANGED <<registryVars, clientVars, codecVars, workerVars, pass_log, enq_open, event, session>>

\* ---- lib.rs:113-121, light of one chunk ----
UpdateLight ==
    /\ pc = "light"
    /\ IF update_lightning_chunks_vec # <<>>
       THEN /\ update_lightning_chunks_vec' = Tail(update_lightning_chunks_vec)
            /\ update_lightning_chunks' =
                   update_lightning_chunks \ {Head(update_lightning_chunks_vec)}
            /\ lit_evicted' = lit_evicted \ {Head(update_lightning_chunks_vec)}
       ELSE UNCHANGED <<update_lightning_chunks, update_lightning_chunks_vec, lit_evicted>>
    /\ drain_log' = NoDrain
    /\ pc' = "physics"
    /\ sent' = NoSent
    /\ UNCHANGED <<nevents, players, phys, world, generating_chunks>>
    /\ UNCHANGED <<registryVars, clientVars, codecVars, workerVars, pass_log, enq_open, event, session>>

\* ---- lib.rs:129, physics_simulation.step_simulation ----
\* Every player stays in its chunk or crosses into a neighbouring one.
StepSimulation ==
    /\ pc = "physics"
    /\ phys' \in {f \in [DOMAIN phys -> Universe] :
                    \A id \in DOMAIN phys :
                        squared_euclidian_distance(f[id], phys[id]) <= 1}
    /\ pc' = "broadcast"
    /\ sent' = NoSent
    /\ UNCHANGED <<nevents, players, world, generating_chunks,
                   update_lightning_chunks, update_lightning_chunks_vec>>
    /\ UNCHANGED <<registryVars, clientVars, codecVars, workerVars, logVars, event, session>>

\* ---- lib.rs:131-136, UpdatePhysics to every player ----
Broadcast ==
    /\ pc = "broadcast"
    /\ pc' = "stream"
    /\ sent' = [id \in PlayerIds |->
                  IF id \in DOMAIN players THEN <<UpdatePhysics>> ELSE <<>>]
    /\ session' = Record(session, sent')
    /\ UNCHANGED <<nevents, players, phys, world, generating_chunks,
                   update_lightning_chunks, update_lightning_chunks_vec>>
    /\ UNCHANGED <<registryVars, clientVars, codecVars, workerVars, logVars, event>>

\* ---- world generation worker (WorldGenerationWorker) ----

\* enqueue_chunk: a no-op for a position that is queued or being computed.
enqueue_chunk(q, flight, pos) ==
    IF pos = flight \/ \E k \in DOMAIN q : q[k].pos = pos THEN q
    ELSE Append(q, [pos |-> pos, prio |-> 0])

\* dequeue_chunk: removes a job that has not been started.
dequeue_chunk(q, pos) == SelectSeq(q, LAMBDA j : j.pos # pos)

\* set_chunk_priority leaving the key as it is.
SetChunkPriorityKept(q, pos, prio) == q

\* set_chunk_priority: the new key of a job that has not been started.
set_chunk_priority(q, pos, prio) ==
    [k \in DOMAIN q |-> IF q[k].pos = pos THEN [q[k] EXCEPT !.prio = prio] ELSE q[k]]

\* NextJob serving the oldest job whatever its priority.
NextJobFifo(q) == CHOOSE k \in DOMAIN q : \A m \in DOMAIN q : k <= m

\* The job the worker thread pops: lowest priority, oldest first among equals.
NextJob(q) ==
    CHOOSE k \in DOMAIN q :
        \A m \in DOMAIN q : q[k].prio < q[m].prio \/ (q[k].prio = q[m].prio /\ k <= m)

\* The worker thread takes a job off the queue.
WorkerStart ==
    /\ pc # "panicked"
    /\ wflight = None
    /\ wqueue # <<>>
    /\ LET k == NextJob(wqueue)
       IN  /\ wflight' = wqueue[k].pos
           /\ wqueue' = SubSeq(wqueue, 1, k - 1) \o SubSeq(wqueue, k + 1, Len(wqueue))
    /\ UNCHANGED <<wdone, wfailed>>
    /\ UNCHANGED <<registryVars, clientVars, codecVars, serverVars, logVars, netVars>>

\* The worker thread sends the chunk it generated.
WorkerFinish ==
    /\ pc # "panicked"
    /\ wflight # None
    /\ wdone' = Append(wdone, wflight)
    /\ wflight' = None
    /\ UNCHANGED <<wqueue, wfailed>>
    /\ UNCHANGED <<registryVars, clientVars, codecVars, serverVars, logVars, netVars>>

\* ---- the calls the orchestrator makes on the worker, one at a time ----
MaxJobs == 3

JobPositions == {<<1, 0, 0>>, <<1, 1, 1>>, <<1, 2, 0>>}

JobPriorities == {1, 3, 5}

Tracked(pos) == pos = wflight \/ \E k \in DOMAIN wqueue : wqueue[k].pos = pos

\* lib.rs:161 and 195: enqueue_chunk(pos), then the priority of the job is set.
\* pass_log.enq lists the positions in the order they were taken in the queue,
\* pass_log.prio the latest priority given for each.
JobEnqueue(pos, prio) ==
    /\ Len(pass_log.enq) < MaxJobs
    /\ wqueue' = set_chunk_priority(enqueue_chunk(wqueue, wflight, pos), pos, prio)
    /\ pass_log' = [pass_log EXCEPT
                       !.enq = IF Tracked(pos) THEN @ ELSE Append(@, pos),
                       !.prio = IF pos = wflight THEN @
                                ELSE {e \in @ : e[1] # pos} \cup {<<pos, prio>>}]
    /\ UNCHANGED <<wflight, wdone, wfailed, drain_log, enq_open, lit_evicted>>
    /\ UNCHANGED <<registryVars, clientVars, codecVars, serverVars, netVars>>

\* lib.rs:195
JobSetPriority(pos, prio) ==
    /\ \E k \in DOMAIN wqueue : wqueue[k].pos = pos
    /\ wqueue' = set_chunk_priority(wqueue, pos, prio)
    /\ pass_log' = [pass_log EXCEPT !.prio = {e \in @ : e[1] # pos} \cup {<<pos, prio>>}]
    /\ UNCHANGED <<wflight, wdone, wfailed, drain_log, enq_open, lit_evicted>>
    /\ UNCHANGED <<registryVars, clientVars, codecVars, serverVars, netVars>>

\* lib.rs:193
JobDequeue(pos) ==
    /\ \E k \in DOMAIN wqueue : wqueue[k].pos = pos
    /\ wqueue' = dequeue_chunk(wqueue, pos)
    /\ pass_log' = [pass_log EXCEPT !.deq = @ \cup {pos}]
    /\ UNCHANGED <<wflight, wdone, wfailed, drain_log, enq_open, lit_evicted>>
    /\ UNCHANGED <<registryVars, clientVars, codecVars, serverVars, netVars>>

\* The generation of the job in flight fails: the failure is caught at the
\* job boundary and no result is sent.
WorkerFail ==
    /\ pc # "panicked"
    /\ wflight # None
    /\ wfailed' = wfailed \cup {wflight}
    /\ wflight' = None
    /\ UNCHANGED <<wqueue, wdone>>
    /\ UNCHANGED <<registryVars, clientVars, codecVars, serverVars, logVars, netVars>>

\* ---- lib.rs:138-198, chunks to players, eviction, priorities ----

ActuallyInsertedAlways(gen, pos) == TRUE

\* lib.rs:159, what generating_chunks.insert(chunk_pos) returns
ActuallyInserted(gen, pos) == pos \notin gen

\* SendNewChunk without line 152, the test of loaded_chunks.
SendNewChunkAgain(st, chunk_pos) ==
    IF chunk_pos \in world
    THEN [st EXCEPT !.sent = Append(st.sent, chunk_pos),
                    !.acts = Append(st.acts, Chunk(chunk_pos)),
                    !.loaded = st.loaded \cup {chunk_pos}]
    ELSE IF ActuallyInserted(st.gen, chunk_pos)
    THEN [st EXCEPT !.gen = st.gen \cup {chunk_pos},
                    !.wq = enqueue_chunk(st.wq, wflight, chunk_pos),
                    !.enq = Append(st.enq, chunk_pos),
                    !.acts = Append(st.acts, <<"enqueue", chunk_pos>>)]
    ELSE [st EXCEPT !.gen = st.gen \cup {chunk_pos}]

\* lib.rs:150-165, the loop body for one chunk_pos of the render set.
\* st = [loaded, gen, wq, enq, sent, acts]; acts lists what the loop did for
\* this player, in order: <<"Chunk", pos>> sent, <<"enqueue", pos>> requested.
SendNewChunk(st, chunk_pos) ==
    IF chunk_pos \in st.loaded THEN st
    ELSE IF chunk_pos \in world                                  \* world.get_chunk
    THEN [st EXCEPT !.sent = Append(st.sent, chunk_pos),
                    !.acts = Append(st.acts, Chunk(chunk_pos)),
                    !.loaded = st.loaded \cup {chunk_pos}]
    ELSE IF ActuallyInserted(st.gen, chunk_pos)                  \* generating_chunks.insert
    THEN [st EXCEPT !.gen = st.gen \cup {chunk_pos},
                    !.wq = enqueue_chunk(st.wq, wflight, chunk_pos),
                    !.enq = Append(st.enq, chunk_pos),
                    !.acts = Append(st.acts, <<"enqueue", chunk_pos>>)]
    ELSE [st EXCEPT !.gen = st.gen \cup {chunk_pos}]

\* SendNewChunks walking the render set from its last position to its first.
RECURSIVE SendNewChunksBackwards(_, _)
SendNewChunksBackwards(st, cs) ==
    IF cs = <<>> THEN st
    ELSE SendNewChunksBackwards(SendNewChunk(st, cs[Len(cs)]), SubSeq(cs, 1, Len(cs) - 1))

\* lib.rs:150-165, the loop over the render set.
RECURSIVE SendNewChunks(_, _)
SendNewChunks(st, cs) ==
    IF cs = <<>> THEN st ELSE SendNewChunks(SendNewChunk(st, cs[1]), Tail(cs))

\* StreamToPlayer without lines 167-169, the retain of loaded_chunks.
StreamToPlayerNoRetain(st, id) ==
    LET data == st.players[id]
        r    == SendNewChunks([loaded |-> data.loaded_chunks, gen |-> st.gen, wq |-> st.wq,
                               enq |-> st.enq, sent |-> <<>>, acts |-> <<>>],
                              iterate_around_player(data.render_distance, phys[id]))
    IN  [players |-> [st.players EXCEPT ![id].loaded_chunks = r.loaded],
         gen |-> r.gen, wq |-> r.wq, enq |-> r.enq,
         acts |-> [st.acts EXCEPT ![id] = r.acts],
         dropped |-> st.dropped]

\* lib.rs:140-170, the loop body for one player.
\* st = [players, gen, wq, enq, acts, dropped]
StreamToPlayer(st, id) ==
    LET data       == st.players[id]
        player_pos == phys[id]
        r  == SendNewChunks([loaded |-> data.loaded_chunks, gen |-> st.gen, wq |-> st.wq,
                             enq |-> st.enq, sent |-> <<>>, acts |-> <<>>],
                            iterate_around_player(data.render_distance, player_pos))
        kept == {c \in r.loaded : is_chunk_visible(data.render_distance, player_pos, c)}
    IN  [players |-> [st.players EXCEPT ![id].loaded_chunks = kept],
         gen |-> r.gen, wq |-> r.wq, enq |-> r.enq,
         acts |-> [st.acts EXCEPT ![id] = r.acts],
         dropped |-> st.dropped \cup {<<id, c>> : c \in r.loaded \ kept}]

RECURSIVE StreamToPlayers(_, _)
StreamToPlayers(st, ids) ==
    IF ids = <<>> THEN st ELSE StreamToPlayers(StreamToPlayer(st, ids[1]), Tail(ids))

\* VisibleToSome asking every player_positions entry to see chunk_pos.
VisibleToAll(chunk_pos) ==
    \A id \in DOMAIN players :
        is_chunk_visible(players[id].render_distance, phys[id], chunk_pos)

\* lib.rs:174-179 and 184-185: some player_positions entry sees chunk_pos.
VisibleToSome(chunk_pos) ==
    \E id \in DOMAIN players :
        is_chunk_visible(players[id].render_distance, phys[id], chunk_pos)

RECURSIVE MinDistanceLoop(_, _, _)
MinDistanceLoop(min_distance, chunk_pos, ids) ==
    IF ids = <<>> THEN min_distance
    ELSE LET id == ids[1]
             d  == squared_euclidian_distance(chunk_pos, phys[id])
             m  == IF is_chunk_visible(players[id].render_distance, phys[id], chunk_pos)
                      /\ d < min_distance
                   THEN d ELSE min_distance
         IN  MinDistanceLoop(m, chunk_pos, Tail(ids))

RECURSIVE LastDistanceLoop(_, _, _)
LastDistanceLoop(min_distance, chunk_pos, ids) ==
    IF ids = <<>> THEN min_distance
    ELSE LET id == ids[1]
             d  == squared_euclidian_distance(chunk_pos, phys[id])
             m  == IF is_chunk_visible(players[id].render_distance, phys[id], chunk_pos)
                   THEN d ELSE min_distance
         IN  LastDistanceLoop(m, chunk_pos, Tail(ids))

LastDistance(chunk_pos, ids) == LastDistanceLoop(1000000000, chunk_pos, ids)

\* lib.rs:182-191, min_distance of the closure of generating_chunks.retain.
MinDistance(chunk_pos, ids) == MinDistanceLoop(1000000000, chunk_pos, ids)

\* lib.rs:181-198, generating_chunks.retain, one position after another.
\* st = [gen, wq, deq, prio]
RECURSIVE RetainGenerating(_, _, _)
RetainGenerating(st, cs, ids) ==
    IF cs = <<>> THEN st
    ELSE LET chunk_pos == cs[1]
             next ==
                IF ~VisibleToSome(chunk_pos)
                THEN [st EXCEPT !.gen = st.gen \ {chunk_pos},
                                !.wq = dequeue_chunk(st.wq, chunk_pos),
                                !.deq = st.deq \cup {chunk_pos}]
                ELSE [st EXCEPT
                        !.wq = set_chunk_priority(st.wq, chunk_pos, MinDistance(chunk_pos, ids)),
                        !.prio = st.prio \cup {<<chunk_pos, MinDistance(chunk_pos, ids)>>}]
         IN  RetainGenerating(next, Tail(cs), ids)

\* lib.rs:173-180, world.chunks.retain
RetainWorldAll(w) == {chunk_pos \in w : VisibleToAll(chunk_pos)}

\* RetainWorld keeping only the chunks that hold a player.
RetainWorldCentres(w) == {chunk_pos \in w : \E id \in DOMAIN phys : chunk_pos = phys[id]}

RetainWorld(w) == {chunk_pos \in w : VisibleToSome(chunk_pos)}

StreamingPass ==
    /\ pc = "stream"
    /\ \E ids \in Orders(DOMAIN players) :           \* players.iter_mut()
          LET s == StreamToPlayers([players |-> players, gen |-> generating_chunks,
                                    wq |-> wqueue, enq |-> <<>>,
                                    acts |-> NoPass.acts, dropped |-> {}], ids)
              g == RetainGenerating([gen |-> s.gen, wq |-> s.wq, deq |-> {}, prio |-> {}],
                                    AnyOrder(s.gen), ids)
          IN  /\ players' = s.players
              /\ world' = RetainWorld(world)
              /\ generating_chunks' = g.gen
              /\ wqueue' = g.wq
              /\ pass_log' = [enq |-> s.enq, deq |-> g.deq, prio |-> g.prio,
                              evicted |-> world \ RetainWorld(world),
                              acts |-> s.acts, dropped |-> s.dropped]
              /\ enq_open' = (enq_open \cup Range(s.enq)) \ g.deq
              /\ wfailed' = (wfailed \ Range(s.enq)) \ g.deq
              /\ lit_evicted' = lit_evicted \cup
                     ((world \ RetainWorld(world)) \cap Range(update_lightning_chunks_vec))
              /\ sent' = [id \in PlayerIds |->
                            SelectSeq(s.acts[id], LAMBDA a : a[1] = "Chunk")]
    /\ session' = Record(session, sent')
    /\ pc' = "end"
    /\ UNCHANGED <<nevents, phys, update_lightning_chunks, update_lightning_chunks_vec>>
    /\ UNCHANGED <<registryVars, clientVars, codecVars, wflight, wdone, drain_log, event>>

\* lib.rs:201 -> 51, the next turn of the outer loop.
EndTick ==
    /\ pc = "end"
    /\ pc' = "events"
    /\ pass_log' = NoPass
    /\ sent' = NoSent
    /\ UNCHANGED <<nevents, players, phys, world, generating_chunks,
                   update_lightning_chunks, update_lightning_chunks_vec>>
    /\ UNCHANGED <<registryVars, clientVars, codecVars, workerVars, drain_log, enq_open, lit_evicted,
                   event, session>>

(***************************************************************************)
(* Client: WorldRenderer and its meshing worker (render/world/mod.rs).     *)
(* The meshing worker is the background job worker of the server, with     *)
(* meshes for results; a MultiBuffer is a store of buffer ranges by key.   *)
(***************************************************************************)
MaxMeshResults == 2

MeshPositions == {<<0, 0, 0>>, <<0, 1, 0>>}

\* vertices.len() and indices.len() of a mesh: none, or a triangle.
MeshLens == {0, 3}

\* WorldRenderer::new
MeshIdle ==
    /\ mqueue = <<>>
    /\ mflight = None
    /\ mdone = <<>>
    /\ chunk_vertex_buffers = {}
    /\ chunk_index_buffers = {}
    /\ mremoved = {}
    /\ mdraw = "none"

\* MultiBuffer::update(device, encoder, key, data)
MultiBufferUpdate(buffer, key) == buffer \cup {key}

\* MultiBuffer::remove(&key)
MultiBufferRemove(buffer, key) == buffer \ {key}

\* mod.rs:287-293
update_chunk(pos) ==
    /\ mdraw # "panicked"
    /\ mqueue' = enqueue_chunk(mqueue, mflight, pos)
    /\ mremoved' = mremoved \ {pos}
    /\ UNCHANGED <<mflight, mdone, chunk_vertex_buffers, chunk_index_buffers, mdraw>>
    /\ UNCHANGED <<codecVars, serverVars, workerVars, logVars, netVars, inputVars, registryVars>>

\* mod.rs:295-299
remove_chunk(pos) ==
    /\ mdraw # "panicked"
    /\ mqueue' = dequeue_chunk(mqueue, pos)
    /\ chunk_vertex_buffers' = MultiBufferRemove(chunk_vertex_buffers, pos)
    /\ chunk_index_buffers' = MultiBufferRemove(chunk_index_buffers, pos)
    /\ mremoved' = mremoved \cup {pos}
    /\ UNCHANGED <<mflight, mdone, mdraw>>
    /\ UNCHANGED <<codecVars, serverVars, workerVars, logVars, netVars, inputVars, registryVars>>

\* ReceiveMesh filling each buffer on its own length.
ReceiveMeshEach(st, m) ==
    [vertex |-> IF m.vertices > 0 THEN MultiBufferUpdate(st.vertex, m.pos) ELSE st.vertex,
     index  |-> IF m.indices > 0 THEN MultiBufferUpdate(st.index, m.pos) ELSE st.index]

\* mod.rs:181-194, the loop body for one mesh.  st = [vertex, index]
ReceiveMesh(st, m) ==
    IF m.vertices > 0 /\ m.indices > 0
    THEN [vertex |-> MultiBufferUpdate(st.vertex, m.pos),
          index  |-> MultiBufferUpdate(st.index, m.pos)]
    ELSE st

\* mod.rs:180-195
RECURSIVE ReceiveMeshes(_, _)
ReceiveMeshes(st, ms) ==
    IF ms = <<>> THEN st ELSE ReceiveMeshes(ReceiveMesh(st, ms[1]), Tail(ms))

\* mod.rs:169-285, WorldRenderer::render: the meshes are received, then every
\* chunk of the index buffer that the frustum keeps is drawn (lines 232-243);
\* the unwrap of line 236 panics for a key the vertex buffer does not hold.
render ==
    /\ mdraw # "panicked"
    /\ LET st == ReceiveMeshes([vertex |-> chunk_vertex_buffers,
                                index |-> chunk_index_buffers], mdone)
       IN  /\ chunk_vertex_buffers' = st.vertex
           /\ chunk_index_buffers' = st.index
           /\ \E drawn \in SUBSET st.index :
                  mdraw' = IF drawn \subseteq st.vertex THEN "ok" ELSE "panicked"
    /\ mdone' = <<>>
    /\ UNCHANGED <<mqueue, mflight, mremoved>>
    /\ UNCHANGED <<codecVars, serverVars, workerVars, logVars, netVars, inputVars, registryVars>>

\* The meshing thread takes a job off the queue.
MeshStart ==
    /\ mdraw # "panicked"
    /\ mflight = None
    /\ mqueue # <<>>
    /\ LET k == NextJob(mqueue)
       IN  /\ mflight' = mqueue[k].pos
           /\ mqueue' = SubSeq(mqueue, 1, k - 1) \o SubSeq(mqueue, k + 1, Len(mqueue))
    /\ UNCHANGED <<mdone, chunk_vertex_buffers, chunk_index_buffers, mremoved, mdraw>>
    /\ UNCHANGED <<codecVars, serverVars, workerVars, logVars, netVars, inputVars, registryVars>>

\* The meshing thread sends the mesh it computed.
MeshFinish ==
    /\ mdraw # "panicked"
    /\ mflight # None
    /\ Len(mdone) < MaxMeshResults
    /\ \E v \in MeshLens, i \in MeshLens :
          mdone' = Append(mdone, [pos |-> mflight, vertices |-> v, indices |-> i])
    /\ mflight' = None
    /\ UNCHANGED <<mqueue, chunk_vertex_buffers, chunk_index_buffers, mremoved, mdraw>>
    /\ UNCHANGED <<codecVars, serverVars, workerVars, logVars, netVars, inputVars, registryVars>>

(***************************************************************************)
(* Client: InputState (input.rs).                                          *)
(***************************************************************************)
\* MOVE_FORWARD, MOVE_LEFT
Scancodes == {17, 30}

MouseButtons == {"Left", "Right"}

ElementStates == {"Pressed", "Released"}

NoCall == [fn |-> None, key |-> None, state |-> None, before |-> None, ret |-> FALSE]

\* InputState::new
InputNew ==
    /\ keys = <<>>
    /\ mouse_buttons = <<>>
    /\ icall = NoCall

\* HashMap::get(..).cloned(): an Option
MapGet(f, k) == IF k \in DOMAIN f THEN <<"Some", f[k]>> ELSE <<"None">>

\* input.rs:54-59, and the same reading of mouse_buttons
get_key_state(f, scancode) == IF scancode \in DOMAIN f THEN f[scancode] ELSE "Released"

\* input.rs:28-32
process_keyboard_input(scancode, state) ==
    LET previous_state == MapGet(keys, scancode)
    IN  /\ keys' = MapInsert(keys, scancode, state)
        /\ icall' = [fn |-> "process_keyboard_input", key |-> scancode, state |-> state,
                     before |-> get_key_state(keys, scancode),
                     ret |-> previous_state # <<"Some", state>>]
        /\ UNCHANGED <<mouse_buttons>>
        /\ UNCHANGED <<codecVars, serverVars, workerVars, logVars, netVars, meshVars, registryVars>>

\* input.rs:35-43
process_mouse_input(state, button) ==
    LET previous_state == MapGet(mouse_buttons, button)
    IN  /\ mouse_buttons' = MapInsert(mouse_buttons, button, state)
        /\ icall' = [fn |-> "process_mouse_input", key |-> button, state |-> state,
                     before |-> get_key_state(mouse_buttons, button),
                     ret |-> previous_state # <<"Some", state>>]
        /\ UNCHANGED <<keys>>
        /\ UNCHANGED <<codecVars, serverVars, workerVars, logVars, netVars, meshVars, registryVars>>

\* input.rs:61-65
clear ==
    /\ keys' = <<>>
    /\ mouse_buttons' = <<>>
    /\ icall' = NoCall
    /\ UNCHANGED <<codecVars, serverVars, workerVars, logVars, netVars, meshVars, registryVars>>

ClientIdle ==
    /\ MeshIdle
    /\ InputNew

(***************************************************************************)
(* Registry<T> (registry.rs).                                              *)
(***************************************************************************)
\* Names given to register and get_id_by_name.
RegistryNames == {"stone", "dirt", "grass"}

\* Values of T given to register.
RegistryValues == {"solid", "soft"}

NoRegistryCall == [fn |-> None, name |-> None, ret |-> <<>>]

\* registry.rs:43-51, Registry::default
RegistryDefault ==
    /\ name_to_id = <<>>
    /\ id_to_name = <<>>
    /\ id_to_value = <<>>
    /\ rcall = NoRegistryCall
    /\ rlog = <<>>

\* registry.rs:27 answering that no name is registered.
ContainsKeyNever(m, name) == FALSE

\* registry.rs:27, name_to_id.contains_key(&name)
ContainsKey(m, name) == name \in DOMAIN m

\* NewId reading the length after the push of line 31.
NewIdAfterPush(names) == Len(names) + 1

\* registry.rs:30, id_to_name.len() as u32; the cast keeps every length
\* below 2^32, which no run over RegistryNames exceeds.
NewId(names) == Len(names)

\* registry.rs:26-36
register(name, value) ==
    IF ContainsKey(name_to_id, name)
    THEN /\ rcall' = [fn |-> "register", name |-> name,
                      ret |-> <<"Err", "KeyAlreadyExists", name>>]
         /\ UNCHANGED <<name_to_id, id_to_name, id_to_value, rlog>>
         /\ UNCHANGED <<codecVars, serverVars, workerVars, logVars, netVars, clientVars>>
    ELSE LET id == NewId(id_to_name)
         IN  /\ id_to_name' = Append(id_to_name, name)
             /\ name_to_id' = MapInsert(name_to_id, name, id)
             /\ id_to_value' = Append(id_to_value, value)
             /\ rcall' = [fn |-> "register", name |-> name, ret |-> <<"Ok", id>>]
             /\ rlog' = Append(rlog, <<name, id>>)
             /\ UNCHANGED <<codecVars, serverVars, workerVars, logVars, netVars, clientVars>>

\* registry.rs:38-40
get_id_by_name(name) ==
    /\ rcall' = [fn |-> "get_id_by_name", name |-> name, ret |-> MapGet(name_to_id, name)]
    /\ UNCHANGED <<name_to_id, id_to_name, id_to_value, rlog>>
    /\ UNCHANGED <<codecVars, serverVars, workerVars, logVars, netVars, clientVars>>

(***************************************************************************)
(* Specifications.                                                         *)
(***************************************************************************)

InitCodec ==
    /\ decoded = NoDecoded
    /\ enc_overflow = FALSE
    /\ dec_overflow = FALSE
    /\ \/ /\ origin = "local"
          /\ cstage = "chunk"
          /\ chunk \in WellFormedChunks
          /\ compressed = NoChunk
       \/ /\ origin = "wire"
          /\ cstage = "compressed"
          /\ chunk = NoChunk
          /\ compressed \in WireChunks
    /\ InitServer
    /\ ClientIdle
    /\ RegistryDefault

\* CompressedChunk::from_chunk(&chunk)
FromChunk ==
    /\ cstage = "chunk"
    /\ LET r == from_chunk(chunk)
       IN  /\ compressed' = r.cc
           /\ enc_overflow' = r.ovf
    /\ cstage' = "compressed"
    /\ UNCHANGED <<origin, chunk, decoded, dec_overflow>>
    /\ UNCHANGED <<serverVars, workerVars, logVars, netVars, clientVars, registryVars>>

\* compressed.to_chunk()
ToChunk ==
    /\ cstage = "compressed"
    /\ LET r == to_chunk(compressed)
       IN  /\ decoded' = [status |-> r.status, pos |-> r.pos, data |-> r.data]
           /\ dec_overflow' = r.ovf
    /\ cstage' = "decoded"
    /\ UNCHANGED <<origin, chunk, compressed, enc_overflow>>
    /\ UNCHANGED <<serverVars, workerVars, logVars, netVars, clientVars, registryVars>>

NextCodec ==
    \/ FromChunk
    \/ ToChunk

SpecCodec == InitCodec /\ [][NextCodec]_vars

\* ---- the relight after an install, over stores of any shape ----
MaxStored == 3

\* Positions a World Store may hold, and positions a result may come for.
RelightUniverse ==
    {<<0, 0, 0>>, <<0, 1, 0>>, <<1, -2, -1>>, <<2, 0, 0>>,
     <<0, 0, 2>>, <<-1, -1, 1>>, <<0, 2, 0>>, <<1, 1, 1>>}

RelightCentres == {<<0, 0, 0>>, <<0, 1, 0>>}

\* The tick loop about to drain one result, for a position that is being
\* generated, into a store of up to MaxStored chunks, one of which may be
\* waiting for its light.
InitRelight ==
    /\ CodecIdle
    /\ ClientIdle
    /\ RegistryDefault
    /\ pc = "drain"
    /\ nevents = 0
    /\ players = <<>>
    /\ phys = <<>>
    /\ \E pos \in RelightCentres :
          /\ world \in {w \in SUBSET (RelightUniverse \ {pos}) : Cardinality(w) <= MaxStored}
          /\ generating_chunks = {pos}
          /\ wdone = <<pos>>
    /\ update_lightning_chunks_vec \in {<<>>} \cup {<<c>> : c \in world}
    /\ update_lightning_chunks = Range(update_lightning_chunks_vec)
    /\ wqueue = <<>>
    /\ wflight = None
    /\ wfailed = {}
    /\ drain_log = NoDrain
    /\ pass_log = NoPass
    /\ enq_open = {}
    /\ lit_evicted = {}
    /\ event = NoEv
    /\ sent = NoSent
    /\ session = NoSent

NextRelight ==
    \/ DrainResults

SpecRelight == InitRelight /\ [][NextRelight]_vars

Init ==
    /\ CodecIdle
    /\ InitServer
    /\ ClientIdle
    /\ RegistryDefault

Next ==
    \/ NoEvent
    \/ \E id \in PlayerIds : ClientConnected(id)
    \/ \E id \in PlayerIds : ClientDisconnected(id)
    \/ \E id \in PlayerIds : UpdateInput(id)
    \/ \E id \in PlayerIds, rd \in RenderDistances : SetRenderDistance(id, rd)
    \/ DrainResults
    \/ UpdateLight
    \/ StepSimulation
    \/ Broadcast
    \/ StreamingPass
    \/ EndTick
    \/ WorkerStart
    \/ WorkerFinish

Spec == Init /\ [][Next]_vars

\* ---- the server with one client and a generator that can fail ----
NextFail ==
    \/ NoEvent
    \/ ClientConnected(1)
    \/ ClientDisconnected(1)
    \/ UpdateInput(1)
    \/ \E rd \in RenderDistances : SetRenderDistance(1, rd)
    \/ DrainResults
    \/ UpdateLight
    \/ StepSimulation
    \/ Broadcast
    \/ StreamingPass
    \/ EndTick
    \/ WorkerStart
    \/ WorkerFinish
    \/ WorkerFail

SpecFail == Init /\ [][NextFail]_vars

\* ---- the server under fair ticking ----
\* The loop of launch_server never waits: an orchestrator step that can be
\* taken is taken, the inner loop of lib.rs:53-80 ends when receive_event()
\* returns NoEvent, and the worker thread runs whenever it has work.
\* A step that can be taken until it is taken is weakly fair exactly when the
\* states in which it can be taken do not last for ever; the fairness of
\* StreamingPass (taken when pc = "stream") and of WorkerStart (taken when the
\* worker is idle with a job queued) is stated in that form.
Ticking ==
    /\ WF_vars(NoEvent)
    /\ WF_vars(DrainResults)
    /\ WF_vars(UpdateLight)
    /\ WF_vars(StepSimulation)
    /\ WF_vars(Broadcast)
    /\ []<>(pc # "stream")
    /\ WF_vars(EndTick)
    /\ []<>(pc = "panicked" \/ wflight # None \/ wqueue = <<>>)
    /\ WF_vars(WorkerFinish)

\* One client: it connects, moves, changes its render distance, disconnects.
NextLive ==
    \/ NoEvent
    \/ ClientConnected(1)
    \/ ClientDisconnected(1)
    \/ UpdateInput(1)
    \/ \E rd \in RenderDistances : SetRenderDistance(1, rd)
    \/ DrainResults
    \/ UpdateLight
    \/ StepSimulation
    \/ Broadcast
    \/ StreamingPass
    \/ EndTick
    \/ WorkerStart
    \/ WorkerFinish

\* The worker returns a result for every job that was enqueued and not
\* dequeued: no job waits in the queue for ever.  The order of NextJob does
\* not give this by itself, a job can be overtaken again and again.
WorkerReturns ==
    \A P \in Universe : []<>(\A k \in DOMAIN wqueue : wqueue[k].pos # P)

SpecLive == Init /\ [][NextLive]_vars /\ Ticking /\ WorkerReturns

\* ---- one client that connects and stays where it spawned ----
NextScenario ==
    \/ NoEvent
    \/ ClientConnected(1)
    \/ DrainResults
    \/ UpdateLight
    \/ StepSimulation /\ phys' = phys
    \/ Broadcast
    \/ StreamingPass
    \/ EndTick
    \/ WorkerStart
    \/ WorkerFinish

SpecScenario == Init /\ [][NextScenario]_vars

\* ---- the worker and the calls made on it ----
NextWorker ==
    \/ \E pos \in JobPositions, prio \in JobPriorities : JobEnqueue(pos, prio)
    \/ \E pos \in JobPositions, prio \in JobPriorities : JobSetPriority(pos, prio)
    \/ \E pos \in JobPositions : JobDequeue(pos)
    \/ WorkerStart
    \/ WorkerFinish

SpecWorker == Init /\ [][NextWorker]_vars

\* ---- the renderer, with its meshing thread ----
NextMesh ==
    \/ \E pos \in MeshPositions : update_chunk(pos)
    \/ \E pos \in MeshPositions : remove_chunk(pos)
    \/ render
    \/ MeshStart
    \/ MeshFinish

SpecMesh == Init /\ [][NextMesh]_vars

\* ---- the input state ----
NextInput ==
    \/ \E scancode \in Scancodes, state \in ElementStates :
           process_keyboard_input(scancode, state)
    \/ \E state \in ElementStates, button \in MouseButtons :
           process_mouse_input(state, button)
    \/ clear

SpecInput == Init /\ [][NextInput]_vars

\* ---- the registry ----
NextRegistry ==
    \/ \E name \in RegistryNames, value \in RegistryValues : register(name, value)
    \/ \E name \in RegistryNames : get_id_by_name(name)

SpecRegistry == Init /\ [][NextRegistry]_vars

(***************************************************************************)
(* Claims about the codec, checked under SpecCodec.                        *)
(***************************************************************************)

Encoded == origin = "local" /\ cstage \in {"compressed", "decoded"}

RoundTripped == origin = "local" /\ cstage = "decoded"

\* Number of maximal runs of equal cells of a piecewise array.
MaximalRuns(ps) ==
    1 + Cardinality({s \in Starts(ps, 0) \ {0} : CellAt(ps, s) # CellAt(ps, s - 1)})

\* C1: decoding the encoding of a chunk of 32768 cells gives back the chunk's
\* position and the chunk's block id in every cell.
C1_RoundTrip ==
    RoundTripped =>
        /\ decoded.status = "ok"
        /\ decoded.pos = chunk.pos
        /\ SameCells(decoded.data, chunk.data)

\* A chunk cut in three pieces, two of which merge into one run, was decoded.
C1_Witness ==
    /\ RoundTripped
    /\ Len(chunk.data) = 3
    /\ Len(compressed.data) = 2
    /\ chunk.pos # <<0, 0, 0>>

\* C2 (as claimed): decoding runs whose lengths do not sum to 32768 ends in a
\* CorruptChunkData error.
C2_CorruptRejected ==
    (origin = "wire" /\ cstage = "decoded" /\ Total(compressed.data) # CELLS)
        => decoded.status = "CorruptChunkData"

\* C3: the runs of an encoded chunk sum to 32768 cells, no two neighbouring
\* runs carry the same block id, the k-th run is the k-th maximal run of the
\* scan (as many runs as the array has, each with the id of the cell at which
\* it starts), and a uniform chunk is one run.
C3_RunsMaximal ==
    Encoded =>
        LET runs == compressed.data
        IN  /\ Total(runs) = CELLS
            /\ \A k \in 1 .. (Len(runs) - 1) : runs[k][2] # runs[k + 1][2]
            /\ Len(runs) = MaximalRuns(chunk.data)
            /\ \A k \in 1 .. Len(runs) :
                   runs[k][2] = CellAt(chunk.data, Total(SubSeq(runs, 1, k - 1)))
            /\ (\A s \in Starts(chunk.data, 0) :
                    CellAt(chunk.data, s) = CellAt(chunk.data, 0)) => Len(runs) = 1

\* A uniform chunk written as three pieces became one run.
C3_Witness ==
    /\ Encoded
    /\ Len(chunk.data) = 3
    /\ Len(compressed.data) = 1

\* C4: every run of an encoded chunk is 1 to 32768 cells long, and neither the
\* u16 run counter of from_chunk nor the u16 offset of to_chunk overflows.
C4_NoOverflow ==
    Encoded =>
        /\ \A k \in 1 .. Len(compressed.data) :
               compressed.data[k][1] >= 1 /\ compressed.data[k][1] <= CELLS
        /\ ~enc_overflow
        /\ ~dec_overflow

\* The uniform chunk was encoded as one run of 32768 cells and decoded.
C4_Witness ==
    /\ RoundTripped
    /\ Len(compressed.data) = 1
    /\ compressed.data[1][1] = CELLS
    /\ decoded.status = "ok"

(***************************************************************************)
(* Claims about the tick loop, checked under Spec.                         *)
(***************************************************************************)

\* The connected players to whom position P is visible (is_chunk_visible).
SeenBy(P) ==
    {id \in DOMAIN players : is_chunk_visible(players[id].render_distance, phys[id], P)}

\* Squared chunk distance between P and the chunk that holds player id.
Dist2(P, id) == squared_euclidian_distance(P, phys[id])

\* The render set of player id.
RenderSet(id) == Range(iterate_around_player(players[id].render_distance, phys[id]))

Near(c, g) == Abs(c[1] - g[1]) <= 1 /\ Abs(c[3] - g[3]) <= 1

\* C5: a drain installs exactly the results whose position is in the
\* generating set at that moment; the World Store gains these positions only,
\* the lighting queue gains stored neighbours of these positions only, and
\* a drain of stale results alone changes neither.
C5_StaleDiscard ==
    [][(pc = "drain" /\ pc' = "light") =>
        LET good == Range(wdone) \cap generating_chunks
        IN  /\ drain_log'.installed = good
            /\ world' = world \cup good
            /\ \A c \in Range(update_lightning_chunks_vec') :
                   \/ c \in Range(update_lightning_chunks_vec)
                   \/ c \in world' /\ \E g \in good : Near(c, g)
            /\ good = {} =>
                   /\ world' = world
                   /\ update_lightning_chunks' = update_lightning_chunks
                   /\ update_lightning_chunks_vec' = update_lightning_chunks_vec]_vars

\* A drain dropped a stale result while the World Store held a chunk.
C5_Witness ==
    /\ pc = "light"
    /\ \E r \in Range(drain_log.results) : r \notin drain_log.installed
    /\ world # {}

\* C6: after a Streaming pass a chunk that was stored is stored still exactly
\* when some connected player sees it; with no player the store is empty.
C6_Eviction ==
    pc = "end" =>
        /\ \A P \in world \cup pass_log.evicted : (P \in world) <=> (SeenBy(P) # {})
        /\ world \cap pass_log.evicted = {}
        /\ (DOMAIN players = {}) => world = {}

\* A pass evicted one chunk and kept another.
C6_Witness ==
    /\ pc = "end"
    /\ pass_log.evicted # {}
    /\ world # {}

\* C7: a Streaming pass dequeues and drops every position of the generating
\* set that no connected player sees, and keeps, without dequeuing it, every
\* position that some player sees.
C7_Cancellation ==
    [][(pc = "stream" /\ pc' = "end") =>
        \A P \in generating_chunks \cup Range(pass_log'.enq) :
            IF SeenBy(P) = {}
            THEN /\ P \in pass_log'.deq
                 /\ P \notin generating_chunks'
                 /\ \A k \in DOMAIN wqueue' : wqueue'[k].pos # P
            ELSE /\ P \notin pass_log'.deq
                 /\ P \in generating_chunks']_vars

\* A pass dequeued a position and kept another.
C7_Witness ==
    /\ pc = "end"
    /\ pass_log.deq # {}
    /\ generating_chunks # {}

\* C8: after a Streaming pass, the priority pushed for a position kept in the
\* generating set is the least squared distance to a player who sees it; a
\* job still queued carries it; nothing is pushed for a dequeued position.
C8_MinPriority ==
    pc = "end" =>
        /\ \A P \in generating_chunks :
               \E d \in {Dist2(P, id) : id \in SeenBy(P)} :
                   /\ \A id \in SeenBy(P) : d <= Dist2(P, id)
                   /\ \A e \in pass_log.prio : e[1] = P => e[2] = d
                   /\ <<P, d>> \in pass_log.prio
                   /\ \A k \in DOMAIN wqueue : wqueue[k].pos = P => wqueue[k].prio = d
        /\ \A e \in pass_log.prio : e[1] \notin pass_log.deq

\* Two players at different distances see a position that was kept.
C8_Witness ==
    /\ pc = "end"
    /\ \E P \in generating_chunks :
           \E a, b \in SeenBy(P) : Dist2(P, a) < Dist2(P, b)

\* C9: enqueue_chunk(P) is called only for a position some player has in the
\* render set and not in the delivered set, that is neither stored nor in
\* the generating set; never twice in a pass, and never while an earlier
\* enqueue of P has not been followed by a dequeue of P.
C9_EnqueueOnce ==
    [][(pc = "stream" /\ pc' = "end") =>
        \A k \in DOMAIN pass_log'.enq :
            LET P == pass_log'.enq[k]
            IN  /\ P \notin world
                /\ P \notin generating_chunks
                /\ P \notin enq_open
                /\ \E id \in DOMAIN players :
                       P \in RenderSet(id) /\ P \notin players[id].loaded_chunks
                /\ \A j \in DOMAIN pass_log'.enq : j # k => pass_log'.enq[j] # P]_vars

\* A position two players asked for in the same pass was enqueued.
C9_Witness ==
    /\ pc = "end"
    /\ \E P \in Range(pass_log.enq) :
           Cardinality({id \in DOMAIN players : P \in RenderSet(id)}) = 2

\* C10 (as claimed): a position whose result the drain has installed is no
\* longer in the generating set.
C10_InstalledLeavesGenerating ==
    pc = "light" => drain_log.installed \cap generating_chunks = {}

\* The positions of the Chunk messages among msgs.
ChunksOf(msgs) == {msgs[k][2] : k \in {j \in DOMAIN msgs : msgs[j][1] = "Chunk"}}

\* C11: a Streaming pass sends Chunk(P) to a player only when P is in the
\* player's render set, not in the player's delivered set and stored in the
\* World Store; P is in the delivered set after the step; no Chunk(P) goes
\* twice to a player in a pass; and no other step sends a Chunk message.
C11_SendRule ==
    [][/\ (pc = "stream" /\ pc' = "end") =>
            \A id \in PlayerIds : \A k \in DOMAIN sent'[id] :
                sent'[id][k][1] = "Chunk" =>
                    /\ id \in DOMAIN players
                    /\ sent'[id][k][2] \in RenderSet(id)
                    /\ sent'[id][k][2] \notin players[id].loaded_chunks
                    /\ sent'[id][k][2] \in world
                    /\ sent'[id][k][2] \in players'[id].loaded_chunks
                    /\ \A j \in DOMAIN sent'[id] : j # k => sent'[id][j] # sent'[id][k]
       /\ pc' # "end" => \A id \in PlayerIds : ChunksOf(sent'[id]) = {}]_vars

\* A pass sent a player one chunk and did not send again the chunk the
\* player had already.
C11_Witness ==
    /\ pc = "end"
    /\ \E id \in DOMAIN players :
           /\ Cardinality(ChunksOf(sent[id])) = 1
           /\ Cardinality(players[id].loaded_chunks) = 2

\* C12: after a Streaming pass every position of a connected player's
\* delivered set is visible to the player; the delivered set is what the
\* player had or was sent in this pass less the positions the predicate
\* rejects; and the pass sends Chunk messages only.
C12_DeliveredVisible ==
    [][(pc = "stream" /\ pc' = "end") =>
        \A id \in DOMAIN players' :
            LET had  == players[id].loaded_chunks \cup ChunksOf(sent'[id])
                seen == {P \in had : is_chunk_visible(players'[id].render_distance,
                                                      phys'[id], P)}
            IN  /\ players'[id].loaded_chunks = seen
                /\ \A P \in players'[id].loaded_chunks :
                       is_chunk_visible(players'[id].render_distance, phys'[id], P)
                /\ {e \in pass_log'.dropped : e[1] = id} = {<<id, P>> : P \in had \ seen}
                /\ \A k \in DOMAIN sent'[id] : sent'[id][k][1] = "Chunk"]_vars

\* A pass dropped a position from the delivered set of a player who kept another.
C12_Witness ==
    /\ pc = "end"
    /\ \E e \in pass_log.dropped :
           e[1] \in DOMAIN players /\ e[2] \notin players[e[1]].loaded_chunks
    /\ \E id \in DOMAIN players : players[id].loaded_chunks # {}

\* C13: what a Streaming pass does for one player (Chunk messages sent,
\* generations requested) is done in order of distance from the player:
\* never a farther position before a nearer one.
C13_NearestFirst ==
    [][(pc = "stream" /\ pc' = "end") =>
        \A id \in DOMAIN players :
            LET acts == pass_log'.acts[id]
            IN  \A j, k \in DOMAIN acts :
                    Dist2(acts[j][2], id) < Dist2(acts[k][2], id) => j < k]_vars

\* A pass sent a player a chunk and requested a farther one for the player.
C13_Witness ==
    /\ pc = "end"
    /\ \E id \in DOMAIN players :
           LET acts == pass_log.acts[id]
           IN  /\ Len(acts) = 2
               /\ acts[1][1] = "Chunk"
               /\ acts[2][1] = "enqueue"
               /\ Dist2(acts[1][2], id) < Dist2(acts[2][2], id)

\* C14: the lighting queue holds no position twice and the pending set is the
\* set of the positions in the queue.
C14_LightDedup ==
    /\ \A j, k \in DOMAIN update_lightning_chunks_vec :
           j # k => update_lightning_chunks_vec[j] # update_lightning_chunks_vec[k]
    /\ update_lightning_chunks = Range(update_lightning_chunks_vec)

\* An install asked for the light of a position that was pending already.
C14_Witness ==
    /\ pc = "light"
    /\ \E k \in DOMAIN drain_log.lit :
           LET e == drain_log.lit[k]
           IN  Range(e.queue) \cap RelightKeys(e.stored, e.pos, e.changed) # {}

\* C15: the lighting queue loses a position only in the lighting step of a
\* tick, and then its head and nothing else, however many positions wait.
C15_OneLightPerTick ==
    [][/\ Len(update_lightning_chunks_vec') >= Len(update_lightning_chunks_vec) - 1
       /\ Len(update_lightning_chunks_vec') < Len(update_lightning_chunks_vec) =>
              /\ pc = "light" /\ pc' = "physics"
              /\ update_lightning_chunks_vec' = Tail(update_lightning_chunks_vec)
              /\ update_lightning_chunks' =
                     update_lightning_chunks \ {Head(update_lightning_chunks_vec)}
       /\ ~(update_lightning_chunks \subseteq update_lightning_chunks') => pc = "light"]_vars

\* The lighting step of a tick is over and a position still waits.
C15_Witness ==
    /\ pc = "physics"
    /\ update_lightning_chunks_vec # <<>>
    /\ world # {}

\* The positions the install of P must ask the light of, by the statement:
\* P, and the other stored positions of the column and its neighbours at or
\* below P when the height changed, the stored positions next to P otherwise.
Relit(P, changed, stored) ==
    {P} \cup
    IF changed
    THEN {c \in stored \ {P} :
            Abs(c[1] - P[1]) <= 1 /\ Abs(c[3] - P[3]) <= 1 /\ c[2] <= P[2]}
    ELSE {c \in stored :
            Abs(c[1] - P[1]) <= 1 /\ Abs(c[2] - P[2]) <= 1 /\ Abs(c[3] - P[3]) <= 1}

\* The lighting queue after the k-th install of the latest drain.
QueueAfter(k) ==
    IF k < Len(drain_log.lit) THEN drain_log.lit[k + 1].queue
    ELSE update_lightning_chunks_vec

TickOrder ==
    {<<"events", "drain">>, <<"drain", "light">>, <<"light", "physics">>,
     <<"physics", "broadcast">>, <<"broadcast", "stream">>, <<"stream", "end">>,
     <<"end", "events">>, <<"events", "panicked">>}

\* The step receives an event other than NoEvent.
EventStep == pc = "events" /\ nevents' = nevents + 1

KindsOf(msgs) == {msgs[k][1] : k \in DOMAIN msgs}

\* C17: the orchestrator goes through events, drain, lighting, physics,
\* broadcast and Streaming pass in this order in every tick; it leaves the
\* events only on NoEvent; and each kind of work is done in its own place
\* only: events change the player map and the render distances, the drain
\* takes the results and stores chunks, the lighting step pops, physics
\* moves the players, the broadcast sends UpdatePhysics, the pass sends
\* chunks and changes the delivered sets.
C17_TickOrder ==
    [][/\ pc' # pc => <<pc, pc'>> \in TickOrder
       /\ (pc = "events" /\ pc' = "drain") => event' = NoEv
       /\ (event' # event \/ nevents' # nevents) => pc = "events"
       /\ (DOMAIN players' # DOMAIN players \/ DOMAIN phys' # DOMAIN phys) => pc = "events"
       /\ (\E id \in DOMAIN players \cap DOMAIN players' :
               players'[id].render_distance # players[id].render_distance) => pc = "events"
       /\ (Len(wdone') < Len(wdone) \/ ~(world' \subseteq world)) => pc = "drain"
       /\ Len(update_lightning_chunks_vec') > Len(update_lightning_chunks_vec) => pc = "drain"
       /\ Len(update_lightning_chunks_vec') < Len(update_lightning_chunks_vec) => pc = "light"
       /\ (\E id \in DOMAIN phys \cap DOMAIN phys' : phys'[id] # phys[id]) => pc = "physics"
       /\ (sent' # sent /\ \E id \in PlayerIds : "UpdatePhysics" \in KindsOf(sent'[id]))
              => pc = "broadcast"
       /\ (sent' # sent /\ \E id \in PlayerIds : "Chunk" \in KindsOf(sent'[id]))
              => pc = "stream"
       /\ (\E id \in DOMAIN players \cap DOMAIN players' :
               players'[id].loaded_chunks # players[id].loaded_chunks) => pc = "stream"
       /\ (generating_chunks' # generating_chunks \/ ~(world \subseteq world'))
              => pc = "stream"]_vars

\* A tick ends: its pass sent a chunk, a position the drain queued still
\* waits for its light, and a result that came during the tick waits for
\* the next drain.
C17_Witness ==
    /\ pc = "end"
    /\ \E id \in DOMAIN players : "Chunk" \in KindsOf(sent[id])
    /\ update_lightning_chunks_vec # <<>>
    /\ wdone # <<>>

\* C18: ClientConnected(id) registers id with an empty delivered set and the
\* default render distance and sends id GameData, then CurrentId(id); every
\* UpdatePhysics and Chunk message goes to a player whose session began with
\* these two messages.
C18_Handshake ==
    [][\A id \in PlayerIds :
        /\ (EventStep /\ event' = <<"ClientConnected", id>>) =>
               /\ id \in DOMAIN players'
               /\ players'[id].loaded_chunks = {}
               /\ players'[id].render_distance = DefaultRenderDistance
               /\ sent'[id] = <<GameData, CurrentId(id)>>
        /\ (sent' # sent /\ KindsOf(sent'[id]) \cap {"UpdatePhysics", "Chunk"} # {}) =>
               session[id] = <<"GameData", "CurrentId">>
        /\ session'[id] \in {<<>>, <<"GameData", "CurrentId">>}]_vars

\* Two players are connected and one of them, whose session began with the
\* two messages, was sent a chunk.
C18_Witness ==
    /\ pc = "end"
    /\ \E id \in DOMAIN players :
           /\ "Chunk" \in KindsOf(sent[id])
           /\ session[id] = <<"GameData", "CurrentId">>
    /\ Cardinality(DOMAIN players) = 2

\* C19: ClientDisconnected(id) leaves id without player data and without
\* physics state; nothing is sent to an id that is not connected; no message
\* has gone to it since it disconnected; and an id enters the player map
\* by ClientConnected only, with an empty delivered set.
C19_Disconnect ==
    [][\A id \in PlayerIds :
        /\ (EventStep /\ event' = <<"ClientDisconnected", id>>) =>
               /\ id \notin DOMAIN players'
               /\ id \notin DOMAIN phys'
               /\ sent'[id] = <<>>
        /\ id \notin DOMAIN players' =>
               /\ sent'[id] = <<>>
               /\ session'[id] = <<>>
               /\ id \notin DOMAIN phys'
        /\ (id \in DOMAIN players' /\ id \notin DOMAIN players) =>
               /\ EventStep
               /\ event' = <<"ClientConnected", id>>
               /\ players'[id].loaded_chunks = {}]_vars

\* A player disconnected while a player stays and chunks are stored.
C19_Witness ==
    /\ pc = "events"
    /\ event[1] = "ClientDisconnected"
    /\ event[2] \notin DOMAIN players
    /\ DOMAIN players # {}
    /\ world # {}

\* C20: an UpdateInput or SetRenderDistance message from an id that is not
\* in the player map stops the server with a failed assertion, the physics
\* input and every render distance left as they were; a stopped server
\* does nothing more.
C20_ProtocolViolation ==
    [][/\ (/\ EventStep
           /\ event'[1] \in {"UpdateInput", "SetRenderDistance"}
           /\ event'[2] \notin DOMAIN players) =>
              /\ pc' = "panicked"
              /\ phys' = phys
              /\ players' = players
       /\ pc = "panicked" => UNCHANGED vars]_vars

\* An id that is not in the player map sent a render distance while a
\* player was connected.
C20_Witness ==
    /\ pc = "panicked"
    /\ event[1] = "SetRenderDistance"
    /\ event[2] \notin DOMAIN players
    /\ DOMAIN players # {}

\* C21 (as claimed): once the drain that follows the failure of the job for P
\* has run, P is no longer in the generating set, so that a later Streaming
\* pass can request it again while a player sees it.
C21_FailedLeavesGenerating ==
    pc = "light" => drain_log.failed \cap generating_chunks = {}

\* Index of the latest entry of pos in the sequence q.
LastIndex(q, pos) ==
    CHOOSE k \in DOMAIN q : q[k] = pos /\ \A m \in DOMAIN q : q[m] = pos => m <= k

\* C22: the job the worker starts is a queued job whose priority value no
\* queued job undercuts, and the one that was enqueued first among the queued
\* jobs of that priority; it leaves the queue and the others stay in place.
C22_PriorityOrder ==
    [][(wflight = None /\ wflight' # None) =>
        \E k \in DOMAIN wqueue :
            /\ wqueue[k].pos = wflight'
            /\ <<wqueue[k].pos, wqueue[k].prio>> \in pass_log.prio
            /\ \A m \in DOMAIN wqueue \ {k} :
                  \/ wqueue[k].prio < wqueue[m].prio
                  \/ /\ wqueue[k].prio = wqueue[m].prio
                     /\ LastIndex(pass_log.enq, wqueue[k].pos)
                            < LastIndex(pass_log.enq, wqueue[m].pos)
            /\ Range(wqueue') = Range(wqueue) \ {wqueue[k]}]_vars

\* Jobs were enqueued with the priorities 5, 1, 3 and the worker has output
\* them in the order 1, 3, 5.
C22_Witness ==
    /\ Len(pass_log.enq) = 3
    /\ pass_log.prio = {<<pass_log.enq[1], 5>>, <<pass_log.enq[2], 1>>, <<pass_log.enq[3], 3>>}
    /\ wdone = <<pass_log.enq[2], pass_log.enq[3], pass_log.enq[1]>>

C24_RemovedStaysOut ==
    mremoved \cap (chunk_vertex_buffers \cup chunk_index_buffers) = {}

\* C25 (as claimed): the position the lighting step is about to pop is the
\* position of a chunk in the World Store.
C25_PoppedIsStored ==
    (pc = "light" /\ update_lightning_chunks_vec # <<>>)
        => Head(update_lightning_chunks_vec) \in world

\* C25 (amended): a position of the lighting queue, the one to pop included,
\* is missing from the World Store exactly when a Streaming pass evicted its
\* chunk after the position was queued and no drain has installed it since.
C25_StoredUnlessEvicted ==
    Range(update_lightning_chunks_vec) \ world = lit_evicted

\* The lighting step is about to pop a position whose chunk was evicted
\* while it waited in the queue.
C25_Witness ==
    /\ pc = "light"
    /\ update_lightning_chunks_vec # <<>>
    /\ Head(update_lightning_chunks_vec) \notin world
    /\ Head(update_lightning_chunks_vec) \in lit_evicted

\* C26: the lighting step removes the front of the lighting queue and moves
\* every other position one place forward; no other step moves a queued
\* position (the drain only appends).  A position at place k + 1 is therefore
\* popped by the (k + 1)-th lighting step from there.
C26_LightFifo ==
    [][LET q == update_lightning_chunks_vec
           r == update_lightning_chunks_vec'
       IN  IF pc = "light" /\ pc' = "physics"
           THEN q # <<>> =>
                  /\ Len(r) = Len(q) - 1
                  /\ \A i \in DOMAIN r : r[i] = q[i + 1]
                  /\ Head(q) \notin update_lightning_chunks'
           ELSE /\ Len(r) >= Len(q)
                /\ \A i \in DOMAIN q : r[i] = q[i]]_vars

\* A lighting step has popped the front of the queue and left a position
\* that was queued behind it.
C26_Witness ==
    /\ pc = "physics"
    /\ update_lightning_chunks_vec # <<>>
    /\ Range(update_lightning_chunks_vec) \subseteq world

\* C27 (as claimed): process_keyboard_input and process_mouse_input return
\* true exactly when the state reported before the call differs from the
\* state of the input.
C27_ReturnsChanged ==
    icall.fn # None => (icall.ret <=> (icall.before # icall.state))

\* Player id is connected, has P in its render set and has not got it.
Want(id, P) ==
    /\ pc # "panicked"
    /\ id \in DOMAIN players
    /\ P \in RenderSet(id)
    /\ P \notin players[id].loaded_chunks

\* C28: under fair ticking, with a worker that returns every job, a player who
\* is connected and has P in the render set without having got it is sent
\* Chunk(P), unless the player disconnects, P leaves the render set of the
\* player, or the server stops on a failed assertion.
C28_EventuallySent ==
    \A id \in PlayerIds : \A P \in Universe :
        Want(id, P) ~>
            \/ Chunk(P) \in Range(sent[id])
            \/ id \notin DOMAIN players
            \/ P \notin RenderSet(id)
            \/ pc = "panicked"

\* A pass sent a player the chunk next to its own, generated on request.
C28_Witness ==
    /\ pc = "end"
    /\ \E id \in DOMAIN players : \E P \in generating_chunks :
           /\ P # phys[id]
           /\ Chunk(P) \in Range(sent[id])
           /\ pass_log.enq = <<>>

\* C29: at the end of a tick every position in the delivered set of a
\* connected player is the position of a chunk in the World Store.
C29_DeliveredStored ==
    pc = "end" => \A id \in DOMAIN players : players[id].loaded_chunks \subseteq world

\* A pass evicted a chunk and a player keeps a delivered chunk.
C29_Witness ==
    /\ pc = "end"
    /\ pass_log.evicted # {}
    /\ \E id \in DOMAIN players : players[id].loaded_chunks # {}

\* C30: the vertex buffer and the index buffer hold the same positions, and
\* no render fails to find the vertex range of a position it draws.
C30_BuffersAgree ==
    /\ chunk_vertex_buffers = chunk_index_buffers
    /\ mdraw # "panicked"

\* A render has drawn a chunk after the other chunk was removed, and a mesh
\* with vertices and no indices waits for the next render.
C30_Witness ==
    /\ mdraw = "ok"
    /\ chunk_index_buffers # {}
    /\ mremoved # {}
    /\ \E k \in DOMAIN mdone : mdone[k].vertices > 0 /\ mdone[k].indices = 0

\* C31: the k-th register call that returned Ok (counting from 0) returned
\* id k; the three collections of the registry have the same number of
\* entries; id_to_name at the id of a registered name is that name; and
\* get_id_by_name answers the id register returned for a registered name
\* and None for a name that was never registered.
C31_DenseStableIds ==
    /\ \A k \in DOMAIN rlog : rlog[k][2] = k - 1
    /\ Len(id_to_name) = Len(id_to_value)
    /\ Cardinality(DOMAIN name_to_id) = Len(id_to_name)
    /\ \A n \in DOMAIN name_to_id : id_to_name[name_to_id[n] + 1] = n
    /\ \A n \in RegistryNames :
          IF \E k \in DOMAIN rlog : rlog[k][1] = n
          THEN \E k \in DOMAIN rlog :
                  rlog[k][1] = n /\ MapGet(name_to_id, n) = <<"Some", rlog[k][2]>>
          ELSE MapGet(name_to_id, n) = <<"None">>
    /\ rcall.fn = "get_id_by_name" =>
          \/ rcall.ret = <<"None">> /\ \A k \in DOMAIN rlog : rlog[k][1] # rcall.name
          \/ \E k \in DOMAIN rlog : rlog[k] = <<rcall.name, rcall.ret[2]>>

\* Three names were registered and get_id_by_name has answered the id of
\* the last of them.
C31_Witness ==
    /\ Len(rlog) = 3
    /\ rcall.fn = "get_id_by_name"
    /\ rcall.ret = <<"Some", 2>>
    /\ rcall.name = rlog[3][1]

\* C32: register with a name that is registered returns KeyAlreadyExists
\* with that name and changes nothing: the ids of all names, the names and
\* values by id, and the id the next register would assign.
C32_DuplicateRejected ==
    [][(rcall'.fn = "register" /\ rcall'.name \in DOMAIN name_to_id) =>
        /\ rcall'.ret = <<"Err", "KeyAlreadyExists", rcall'.name>>
        /\ name_to_id' = name_to_id
        /\ id_to_name' = id_to_name
        /\ id_to_value' = id_to_value
        /\ NewId(id_to_name') = NewId(id_to_name)
        /\ rlog' = rlog]_vars

\* register has refused the first of two registered names.
C32_Witness ==
    /\ rcall.fn = "register"
    /\ rcall.ret[1] = "Err"
    /\ Len(id_to_name) = 2
    /\ rcall.ret[3] = id_to_name[1]

====
